---- MODULE Spec2Model ----
(***************************************************************************)
(* The evaluation tasker of prompt-compression-contest: several tasker     *)
(* processes (src/src/lib/tasker.ts, startTasker / processAttempt) poll    *)
(* one relational store holding the tables attempt, test and test_result,  *)
(* while the HTTP API inserts attempts and tests.                          *)
(*                                                                         *)
(* Every `await` on the store or on the evaluator is one step of a worker, *)
(* so that other workers interleave exactly where the event loop and the   *)
(* database allow it.  Repository.save(entity) on an entity that carries   *)
(* its primary key is the ORM's load-then-write: it first SELECTs the row  *)
(* by key, then INSERTs when the SELECT found nothing and UPDATEs the      *)
(* columns that differ from the loaded row otherwise.  Only the INSERT can *)
(* be rejected by the composite primary key of test_result.                *)
(***************************************************************************)
EXTENDS Integers, Sequences, FiniteSets, TLC

\* ---------------------------------------------------------------- bounds
NumWorkers == 2
MaxAttempts == 1
MaxTests == 2
MaxRatio == 1
MaxCrashes == 1
MaxBatch == 2
MaxTokens == 2
MaxCalls == 2
MaxEvalAttempts == 2
MaxDbErrors == 1
MaxNames == 3
MaxRequests == 3
MaxStarts == 2

Workers == 1..NumWorkers
AttemptIds == 1..(MaxAttempts + 1)
TestIds == 1..MaxTests

\* ------------------------------------------------------------ value space
PENDING == "PENDING"
VALID == "VALID"
FAILED == "FAILED"
NONE == "NONE"

\* SQL NULL / an undefined entity property.  A nullable number column holds
\* Null or <<n>>.
Null == <<>>

RECURSIVE GCD(_, _)
GCD(a, b) == IF b = 0 THEN a ELSE GCD(b, a % b)

\* A float, kept exact as a reduced fraction <<numerator, denominator>>.
Float(n, d) == IF n = 0 THEN <<0, 1>> ELSE <<n \div GCD(n, d), d \div GCD(n, d)>>

\* The row of test_result for one (attempt_id, test_id); status NONE stands
\* for "no such row" (the composite primary key admits one row per pair).
\* Of the columns only status is kept: no statement of the tasker reads the
\* others.
NoRow == [status |-> NONE]

\* The columns compressed_prompt and compression_ratio of a row the
\* finalizing save has not written: both null.
NoColumns == [compressedPrompt |-> <<>>, compressionRatio |-> <<>>]

VARIABLES
    tests,          \* table test: tests[id] = isActive, ids assigned 1, 2, ...
    testRows,       \* table test, the other columns: testRows[id] = [payload, isActive, totalTokens]
    attempts,       \* table attempt: attempts[id] = [timestamp, averageCompressionRatio]
    testResults,    \* table test_result: [attemptId, testId] -> row
    pc,             \* position of each tasker process
    connected,      \* AppDataSource.isInitialized of each process
    activeTestsCount, \* local of startTasker
    attempt,        \* local of startTasker: the selected attempt id (0: none)
    testsToProcess, \* local of processAttempt
    idx,            \* position of the for-loop in testsToProcess
    loaded,         \* status that save() loaded for the entity being claimed
    testsPassed,    \* local of processAttempt
    totalCompressionRatio, \* local of processAttempt
    errorLogged,    \* the outer catch of startTasker has logged an error
    crashes,        \* number of process crashes so far
    writers,        \* history: processes that wrote VALID/FAILED to a pair
    claimers,       \* history: processes whose claim save() of a pair succeeded
    claimedInRun,   \* history: tests claimed in the current processAttempt call
    validInRun,     \* history: <<test, ratio>> finalized VALID in the current call
    completion,     \* history: per attempt, the tests claimed by the call that set its average
    held,           \* history: pairs each process has claimed and not yet finalized
    stored,         \* table test_result, columns compressed_prompt and compression_ratio (kept when observed)
    lastProcessed,  \* history: timestamp of the attempt each process last passed to processAttempt
    observed,       \* which of the histories this specification records
    upsertBatch,    \* argument of the latest storeProcessedTestCases call
    upsertResult,   \* what that call returned (a number), or "threw"
    upsertCalls,    \* number of storeProcessedTestCases calls so far
    evalPc,         \* position of evaluateCompression within one test case
    evalAttempts,   \* attemptsPerTest of the running evaluateCompression
    evalLog,        \* outcomes of the gateway calls of the current evaluatePrompt
    evalUsage,      \* totalUsage of the current evaluatePrompt
    evalReturn,     \* what the latest evaluatePrompt returned (Null: still running)
    uncompressedResult, \* local of evaluateCompression
    compressionRatio,   \* local of evaluateCompression
    task,               \* testCase.task of the running evaluateCompression (kept when observed, as are the next six)
    compressedTask,     \* what getCompressedTask returned
    lastRequestJson,    \* local of the running evaluatePrompt (Null: undefined)
    uncompressedRequestJson, \* uncompressedResult.requestJson
    compressionRequestJson,  \* compressionOutput.requestJson
    requestJson,        \* requestJson of the pushed TestCompressionResult
    completed,          \* history: which of the two evaluations had a gateway call complete
    previous,           \* history: the evaluateCompression call that returned before this one
    dbErrors,       \* number of statements the database has failed so far
    uncompressedStatus, \* table test, column uncompressedStatus
    upc,            \* position of each evaluateUncompressedTest call: upc[w][t]
    evaluators,     \* history: processes that called evaluatePrompt for a test
    users,          \* table user: a set of [login, email, isAdmin], login the primary key
    apiPc,          \* position of the API process: down, seeding or listening
    starts,         \* number of starts of the API process so far
    seedLog,        \* what the latest seedAdminUser run logged
    successfulRegistrationsLocal, \* the in-memory count for the client IP
    regPc,          \* position of each POST /register request from that IP
    regBody,        \* its body while it is being handled: [login, email]
    registered      \* history: registrations from that IP that succeeded since the start

dbVars == <<tests, testRows, attempts, testResults>>
localVars == <<pc, connected, activeTestsCount, attempt, testsToProcess, idx,
               loaded, testsPassed, totalCompressionRatio, errorLogged>>
histVars == <<writers, claimers, claimedInRun, validInRun, completion, lastProcessed, held,
              stored>>
ingestVars == <<upsertBatch, upsertResult, upsertCalls>>
requestVars == <<task, compressedTask, lastRequestJson, uncompressedRequestJson,
                 compressionRequestJson, requestJson, completed, previous>>
evalVars == <<evalPc, evalAttempts, evalLog, evalUsage, evalReturn, uncompressedResult,
              compressionRatio, requestVars>>
faultVars == <<dbErrors>>
uncompressedVars == <<uncompressedStatus, upc, evaluators>>
apiVars == <<users, apiPc, starts, seedLog, successfulRegistrationsLocal, regPc, regBody,
             registered>>
libVars == <<ingestVars, evalVars, faultVars, uncompressedVars, apiVars>>
vars == <<dbVars, localVars, crashes, histVars, observed, libVars>>

\* A history variable moves only in a specification that observes it.
Recorded(name, new, old) == IF name \in observed THEN new ELSE old

\* ---------------------------------------------------------------- queries
TestTableIds == 1..Len(tests)
AttemptTableIds == 1..Len(attempts)

\* testRepo.count({ where: { isActive: true } }) counts this set.
ActiveTests == {t \in TestTableIds : tests[t]}

Min(S) == CHOOSE x \in S : \A y \in S : x <= y

\* The rows of a getMany() as a list, in id order.
RECURSIVE SortedSeq(_)
SortedSeq(S) == IF S = {} THEN <<>> ELSE <<Min(S)>> \o SortedSeq(S \ {Min(S)})

\* LEFT JOIN attempt.testResults failedTestResult ON status = FAILED ...
\* WHERE failedTestResult IS NULL: the attempt has no FAILED row at all.
HasFailedResult(a) == \E t \in TestIds : testResults[a, t].status = FAILED

\* COUNT(DISTINCT test.id) over testResult LEFT JOIN test ON test.isActive.
CountTestedActive(a) ==
    Cardinality({t \in ActiveTests : testResults[a, t].status # NONE})

\* The selection without its failedTestResult join and filter.
SelectableIgnoringFailed(count) ==
    {a \in AttemptTableIds :
        /\ attempts[a].averageCompressionRatio = Null
        /\ CountTestedActive(a) < count}

\* The attempts the query of startTasker keeps, given the count it was handed.
SelectableAttempts(count) ==
    {a \in AttemptTableIds :
        /\ attempts[a].averageCompressionRatio = Null
        /\ ~HasFailedResult(a)
        /\ CountTestedActive(a) < count}

\* ORDER BY timestamp ASC + getOne(): any row with the least timestamp.
OldestOf(S) == {a \in S : \A b \in S : attempts[a].timestamp <= attempts[b].timestamp}

\* Possible results of the selection query of startTasker; {} is null.
SelectAttemptQuery(count) == OldestOf(SelectableAttempts(count))

\* Possible results of getUntestedAttempt(); {} is null.
getUntestedAttempt ==
    OldestOf({a \in AttemptTableIds :
                /\ attempts[a].averageCompressionRatio = Null
                /\ ~HasFailedResult(a)})

\* The inlined work-set query of processAttempt: active tests without a row.
TestsWithoutResult(a) ==
    SortedSeq({t \in ActiveTests : testResults[a, t].status = NONE})

\* The work set without the `OR tr.status = PENDING` alternative.
getTestsToProcessWithoutPending(a) ==
    SortedSeq({t \in ActiveTests : testResults[a, t].status = NONE})

\* getTestsToProcess(attempt): active tests without a row or with a PENDING row.
getTestsToProcess(a) ==
    SortedSeq({t \in ActiveTests : testResults[a, t].status \in {NONE, PENDING}})

\* The aggregation with the division left out.
averageWithoutDivision(passed, total) ==
    IF passed > 0 THEN Float(total, 1) ELSE Float(0, 1)

\* averageCompressionRatio = testsPassed > 0 ? total / testsPassed : 0
averageOf(passed, total) == IF passed > 0 THEN Float(total, passed) ELSE Float(0, 1)

\* aggregateResults(testsPassed, totalCompressionRatio, attempt): the new table.
aggregateResults(passed, total, a) ==
    [attempts EXCEPT ![a].averageCompressionRatio = averageOf(passed, total)]

\* ------------------------------------------------------------ environment
\* What evaluateCompression can hand back: it throws, or it returns a result
\* whose compressedResult.passed is true or false, with some compressionRatio.
Ratios == 0..MaxRatio
EvaluationOutcomes ==
    {[kind |-> "threw", compressionRatio |-> 0]}
    \cup [kind : {"passed", "failed"}, compressionRatio : Ratios]

\* No ingestion has run.
NoUpsertYet ==
    /\ upsertBatch = <<>>
    /\ upsertResult = Null
    /\ upsertCalls = 0

\* totalUsage as evaluatePrompt initializes it.
ZeroUsage == [prompt_tokens |-> 0, completion_tokens |-> 0, total_tokens |-> 0]

\* Neither evaluatePrompt of the call has had a gateway call complete.
NoneCompleted == [uncompressed |-> FALSE, compressed |-> FALSE]

\* evaluateCompression has not been called.
NoEvaluationYet ==
    /\ evalPc = "idle"
    /\ evalAttempts = 0
    /\ evalLog = <<>>
    /\ evalUsage = ZeroUsage
    /\ evalReturn = Null
    /\ uncompressedResult = Null
    /\ compressionRatio = Null
    /\ task = "task"
    /\ compressedTask = ""
    /\ lastRequestJson = Null
    /\ uncompressedRequestJson = Null
    /\ compressionRequestJson = Null
    /\ requestJson = Null
    /\ completed = NoneCompleted
    /\ previous = Null

\* uncompressedStatus IS NULL.
NULL == "NULL"

\* No test has been evaluated uncompressed and no process is at that step.
NoUncompressedStep ==
    /\ uncompressedStatus = [t \in TestIds |-> NULL]
    /\ upc = [w \in Workers |-> [t \in TestIds |-> "none"]]
    /\ evaluators = [t \in TestIds |-> {}]

Names == 1..MaxNames
Requests == 1..MaxRequests
NoBody == [login |-> 0, email |-> 0]

\* The API process has not been started; the user table is empty.
ApiDown ==
    /\ users = {}
    /\ apiPc = "down"
    /\ starts = 0
    /\ seedLog = "none"
    /\ successfulRegistrationsLocal = 0
    /\ regPc = [r \in Requests |-> "none"]
    /\ regBody = [r \in Requests |-> NoBody]
    /\ registered = 0

\* Everything but the test table: no attempt, no result, every tasker process
\* at the top of its loop.
InitProcesses(histories) ==
    /\ observed = histories
    /\ NoUpsertYet
    /\ NoEvaluationYet
    /\ dbErrors = 0
    /\ NoUncompressedStep
    /\ ApiDown
    /\ attempts = <<>>
    /\ testResults = [k \in AttemptIds \X TestIds |-> NoRow]
    /\ pc = [w \in Workers |-> "poll"]
    /\ connected = [w \in Workers |-> TRUE]
    /\ activeTestsCount = [w \in Workers |-> 0]
    /\ attempt = [w \in Workers |-> 0]
    /\ testsToProcess = [w \in Workers |-> <<>>]
    /\ idx = [w \in Workers |-> 0]
    /\ loaded = [w \in Workers |-> NONE]
    /\ testsPassed = [w \in Workers |-> 0]
    /\ totalCompressionRatio = [w \in Workers |-> 0]
    /\ errorLogged = [w \in Workers |-> FALSE]
    /\ crashes = 0
    /\ writers = [k \in AttemptIds \X TestIds |-> {}]
    /\ claimers = [k \in AttemptIds \X TestIds |-> {}]
    /\ claimedInRun = [w \in Workers |-> {}]
    /\ validInRun = [w \in Workers |-> {}]
    /\ completion = [a \in AttemptIds |-> {}]
    /\ lastProcessed = [w \in Workers |-> 0]
    /\ held = [w \in Workers |-> {}]
    /\ stored = [k \in AttemptIds \X TestIds |-> NoColumns]

\* The tests were created through POST /tests, so without totalTokens; some
\* have been deactivated since.
InitObserving(histories) ==
    /\ tests \in UNION {[1..n -> BOOLEAN] : n \in 0..MaxTests}
    /\ testRows = [i \in 1..Len(tests) |->
                      [payload |-> i, isActive |-> tests[i], totalTokens |-> Null]]
    /\ InitProcesses(histories)

Init == InitObserving({})

\* A (model, payload) value that no row of the table has: the request body of
\* a POST /tests that the unique constraint lets through.
FreshPayload(rows) ==
    Min({p \in 1..(Len(rows) + 1) : \A i \in 1..Len(rows) : rows[i].payload # p})

\* POST /tests: a new Test row; is_active defaults to true.
CreateTest ==
    /\ Len(tests) < MaxTests
    /\ tests' = Append(tests, TRUE)
    /\ testRows' = Append(testRows, [payload |-> FreshPayload(testRows), isActive |-> TRUE,
                                     totalTokens |-> Null])
    /\ UNCHANGED <<attempts, testResults, localVars, crashes, histVars, observed, libVars>>

\* POST /attempts/create: a new Attempt row, stamped CURRENT_TIMESTAMP (the
\* clock has moved on since the previous insert).
CreateAttemptUpTo(n) ==
    /\ Len(attempts) < n
    /\ attempts' = Append(attempts,
                     [timestamp |-> Len(attempts) + 1, averageCompressionRatio |-> Null])
    /\ UNCHANGED <<tests, testRows, testResults, localVars, crashes, histVars, observed, libVars>>

CreateAttempt == CreateAttemptUpTo(MaxAttempts)

\* ----------------------------------------------------------- tasker steps
CurrentTest(w) == testsToProcess[w][idx[w]]
CurrentKey(w) == <<attempt[w], CurrentTest(w)>>

\* processAttempt returns to the while(true) loop of startTasker.
ReturnToLoop(w) ==
    /\ pc' = [pc EXCEPT ![w] = "poll"]
    /\ attempt' = [attempt EXCEPT ![w] = 0]
    /\ testsToProcess' = [testsToProcess EXCEPT ![w] = <<>>]
    /\ idx' = [idx EXCEPT ![w] = 0]
    /\ testsPassed' = [testsPassed EXCEPT ![w] = 0]
    /\ totalCompressionRatio' = [totalCompressionRatio EXCEPT ![w] = 0]
    /\ activeTestsCount' = [activeTestsCount EXCEPT ![w] = 0]

\* The for-loop moves to its next test, or falls through to the aggregation.
NextTest(w) ==
    IF idx[w] < Len(testsToProcess[w])
    THEN /\ pc' = [pc EXCEPT ![w] = "claim"]
         /\ idx' = [idx EXCEPT ![w] = idx[w] + 1]
    ELSE /\ pc' = [pc EXCEPT ![w] = "aggregate"]
         /\ idx' = idx

\* const activeTestsCount = await testRepo.count({ where: { isActive: true } })
CountActiveTests(w) ==
    /\ pc[w] = "poll"
    /\ connected[w]
    /\ activeTestsCount' = [activeTestsCount EXCEPT ![w] = Cardinality(ActiveTests)]
    /\ pc' = [pc EXCEPT ![w] = "select"]
    /\ UNCHANGED <<dbVars, connected, attempt, testsToProcess, idx, loaded,
                   testsPassed, totalCompressionRatio, errorLogged, crashes, histVars, observed, libVars>>

\* The same statement after AppDataSource.destroy(): the query throws, the
\* outer catch logs it and the loop starts over at once.
PollError(w) ==
    /\ pc[w] = "poll"
    /\ ~connected[w]
    /\ errorLogged' = [errorLogged EXCEPT ![w] = TRUE]
    /\ UNCHANGED <<dbVars, pc, connected, activeTestsCount, attempt, testsToProcess,
                   idx, loaded, testsPassed, totalCompressionRatio, crashes,
                   histVars, observed, libVars>>

\* The selection query and the branch on its result.
SelectAttempt(w) ==
    /\ pc[w] = "select"
    /\ IF SelectAttemptQuery(activeTestsCount[w]) = {}
       THEN /\ connected' = [connected EXCEPT ![w] = FALSE]
            /\ pc' = [pc EXCEPT ![w] = "sleep"]
            /\ UNCHANGED <<attempt, lastProcessed>>
       ELSE /\ \E a \in SelectAttemptQuery(activeTestsCount[w]) :
                 /\ attempt' = [attempt EXCEPT ![w] = a]
                 /\ lastProcessed' = Recorded("order",
                        [lastProcessed EXCEPT ![w] = attempts[a].timestamp], lastProcessed)
            /\ pc' = [pc EXCEPT ![w] = "getTests"]
            /\ connected' = connected
    /\ UNCHANGED <<dbVars, activeTestsCount, testsToProcess, idx, loaded,
                   testsPassed, totalCompressionRatio, errorLogged, crashes,
                   writers, claimers, claimedInRun, validInRun, completion, held,
                   stored, observed, libVars>>

\* setTimeout(resolve, POLL_INTERVAL) elapses.
Wake(w) ==
    /\ pc[w] = "sleep"
    /\ pc' = [pc EXCEPT ![w] = "poll"]
    /\ activeTestsCount' = [activeTestsCount EXCEPT ![w] = 0]
    /\ UNCHANGED <<dbVars, connected, attempt, testsToProcess, idx, loaded,
                   testsPassed, totalCompressionRatio, errorLogged, crashes, histVars, observed, libVars>>

\* processAttempt up to the head of its for-loop, for the work set fetched.
EnterLoop(w, work) ==
    /\ pc[w] = "getTests"
    /\ claimedInRun' = [claimedInRun EXCEPT ![w] = {}]
    /\ validInRun' = [validInRun EXCEPT ![w] = {}]
    /\ IF work = <<>>
       THEN ReturnToLoop(w)
       ELSE /\ testsToProcess' = [testsToProcess EXCEPT ![w] = work]
            /\ idx' = [idx EXCEPT ![w] = 1]
            /\ testsPassed' = [testsPassed EXCEPT ![w] = 0]
            /\ totalCompressionRatio' = [totalCompressionRatio EXCEPT ![w] = 0]
            /\ pc' = [pc EXCEPT ![w] = "claim"]
            /\ UNCHANGED <<attempt, activeTestsCount>>
    /\ UNCHANGED <<dbVars, connected, loaded, errorLogged, crashes,
                   writers, claimers, completion, lastProcessed, held, stored, observed,
                   libVars>>

\* processAttempt with its inlined work-set query.
GetTests(w) == EnterLoop(w, TestsWithoutResult(attempt[w]))

\* processAttempt fetching its work set through the database service.
GetTestsService(w) == EnterLoop(w, getTestsToProcess(attempt[w]))

\* One poll of the loop through the database service: the selection, then
\* processAttempt or the sleep of POLL_INTERVAL.
PollService(w) ==
    /\ pc[w] = "poll"
    /\ IF getUntestedAttempt = {}
       THEN /\ pc' = [pc EXCEPT ![w] = "sleep"]
            /\ attempt' = attempt
       ELSE /\ \E a \in getUntestedAttempt : attempt' = [attempt EXCEPT ![w] = a]
            /\ pc' = [pc EXCEPT ![w] = "getTests"]
    /\ UNCHANGED <<dbVars, connected, activeTestsCount, testsToProcess, idx, loaded,
                   testsPassed, totalCompressionRatio, errorLogged, crashes, histVars,
                   observed, libVars>>

\* save(testResult), first half: the ORM loads the row with the entity's key.
ClaimLoad(w) ==
    /\ pc[w] = "claim"
    /\ loaded' = [loaded EXCEPT ![w] = testResults[CurrentKey(w)].status]
    /\ pc' = [pc EXCEPT ![w] = "claimWrite"]
    /\ UNCHANGED <<dbVars, connected, activeTestsCount, attempt, testsToProcess, idx,
                   testsPassed, totalCompressionRatio, errorLogged, crashes,
                   histVars, observed, libVars>>

\* save() throws exactly when it INSERTs (nothing was loaded) and the key is
\* taken by now; the catch around it then `continue`s.
ClaimRejected(loadedStatus, currentStatus) ==
    loadedStatus = NONE /\ currentStatus # NONE

\* The row after the second half of save() of the new PENDING entity: an
\* INSERT, no statement at all when the loaded row already was PENDING, or an
\* UPDATE of the status column when the loaded row had another status.
ClaimedRow(loadedStatus, row) ==
    IF loadedStatus = NONE THEN [status |-> PENDING]
    ELSE IF loadedStatus = PENDING THEN row
    ELSE [row EXCEPT !.status = PENDING]

\* The loop body claiming the next test at once, as a fan-out over
\* testsToProcess would, without waiting for the evaluation of this one.
ClaimNextAtOnce(w) == NextTest(w)

\* After a successful claim the loop body awaits evaluateCompression for the
\* same test before anything else.
AwaitEvaluation(w) ==
    /\ pc' = [pc EXCEPT ![w] = "evaluate"]
    /\ idx' = idx

\* save(testResult), second half, and the try/catch around the claim.
ClaimWrite(w) ==
    /\ pc[w] = "claimWrite"
    /\ loaded' = [loaded EXCEPT ![w] = NONE]
    /\ IF ClaimRejected(loaded[w], testResults[CurrentKey(w)].status)
       THEN /\ NextTest(w)
            /\ UNCHANGED <<testResults, claimers, claimedInRun, held>>
       ELSE /\ testResults' = [testResults EXCEPT ![CurrentKey(w)] =
                                  ClaimedRow(loaded[w], testResults[CurrentKey(w)])]
            /\ claimers' = Recorded("claimers",
                                 [claimers EXCEPT ![CurrentKey(w)] = @ \cup {w}], claimers)
            /\ claimedInRun' = Recorded("claimedInRun",
                    [claimedInRun EXCEPT ![w] = @ \cup {CurrentTest(w)}], claimedInRun)
            /\ held' = Recorded("held", [held EXCEPT ![w] = @ \cup {CurrentKey(w)}], held)
            /\ AwaitEvaluation(w)
    /\ UNCHANGED <<tests, testRows, attempts, connected, activeTestsCount, attempt,
                   testsToProcess, testsPassed, totalCompressionRatio,
                   errorLogged, crashes, writers, validInRun, completion,
                   lastProcessed, stored, observed, libVars>>

\* testResult.status = passed ? VALID : FAILED; the catch block sets FAILED.
FinalStatus(res) == IF res.kind = "passed" THEN VALID ELSE FAILED

\* The row after the finalizing save(s) of the entity.
FinalizedRow(res, row) == [row EXCEPT !.status = FinalStatus(res)]

\* The catch block without its `return`: the loop goes on after a failure.
NeverAborts(res) == FALSE

\* `throw new Error('Test evaluation failed')` / a throwing evaluation end in
\* the catch block, whose `return` leaves processAttempt.
AbortsAttempt(res) == FinalStatus(res) # VALID

\* result.compressedTask: a text, here the list of its words; it is never
\* empty, getCompressedTask throws on an empty reply.
CompressedTask == <<"compressed", "task">>

\* The columns the saves of the loop body write for outcome res: those
\* assigned from the result, none when evaluateCompression threw.
ColumnsOf(res) ==
    IF res.kind = "threw" THEN NoColumns
    ELSE [compressedPrompt |-> CompressedTask,
          compressionRatio |-> Float(res.compressionRatio, 1)]

\* await evaluateCompression(...) with outcome res (the two LLM calls touch
\* no table) and the lines after it: write the outcome, count it or abort.
EvaluateWith(w, res) ==
    /\ pc[w] = "evaluate"
    /\ testResults' = [testResults EXCEPT ![CurrentKey(w)] =
                          FinalizedRow(res, testResults[CurrentKey(w)])]
    /\ writers' = Recorded("writers", [writers EXCEPT ![CurrentKey(w)] = @ \cup {w}], writers)
    /\ held' = IF testResults'[CurrentKey(w)].status \in {VALID, FAILED}
               THEN [held EXCEPT ![w] = @ \ {CurrentKey(w)}] ELSE held
    /\ stored' = Recorded("stored", [stored EXCEPT ![CurrentKey(w)] = ColumnsOf(res)], stored)
    /\ IF AbortsAttempt(res)
       THEN /\ ReturnToLoop(w)
            /\ validInRun' = validInRun
       ELSE /\ IF FinalStatus(res) = VALID
               THEN /\ testsPassed' = [testsPassed EXCEPT ![w] = testsPassed[w] + 1]
                    /\ totalCompressionRatio' =
                          [totalCompressionRatio EXCEPT
                              ![w] = totalCompressionRatio[w] + res.compressionRatio]
                    /\ validInRun' = Recorded("validInRun",
                          [validInRun EXCEPT
                              ![w] = @ \cup {<<CurrentTest(w), res.compressionRatio>>}],
                          validInRun)
               ELSE UNCHANGED <<testsPassed, totalCompressionRatio, validInRun>>
            /\ NextTest(w)
            /\ UNCHANGED <<attempt, testsToProcess, activeTestsCount>>
    /\ UNCHANGED <<tests, testRows, attempts, connected, loaded, errorLogged, crashes,
                   claimers, claimedInRun, completion, lastProcessed, observed, libVars>>

Evaluate(w) == \E res \in EvaluationOutcomes : EvaluateWith(w, res)

\* The aggregation after the loop.
Aggregate(w) ==
    /\ pc[w] = "aggregate"
    /\ attempts' = aggregateResults(testsPassed[w], totalCompressionRatio[w], attempt[w])
    /\ completion' = Recorded("claimedInRun",
                           [completion EXCEPT ![attempt[w]] = claimedInRun[w]], completion)
    /\ ReturnToLoop(w)
    /\ UNCHANGED <<tests, testRows, testResults, connected, loaded, errorLogged, crashes,
                   writers, claimers, claimedInRun, validInRun, lastProcessed, held,
                   stored, observed, libVars>>

\* The process dies at any point and its supervisor starts it again:
\* startTasker runs AppDataSource.initialize() and enters the loop.
CrashRestart(w) ==
    /\ crashes < MaxCrashes
    /\ crashes' = crashes + 1
    /\ ReturnToLoop(w)
    /\ connected' = [connected EXCEPT ![w] = TRUE]
    /\ loaded' = [loaded EXCEPT ![w] = NONE]
    /\ errorLogged' = [errorLogged EXCEPT ![w] = FALSE]
    /\ claimedInRun' = [claimedInRun EXCEPT ![w] = {}]
    /\ validInRun' = [validInRun EXCEPT ![w] = {}]
    /\ lastProcessed' = [lastProcessed EXCEPT ![w] = 0]
    /\ held' = [held EXCEPT ![w] = {}]
    /\ UNCHANGED <<dbVars, writers, claimers, completion, stored, observed, libVars>>

Next ==
    \/ CreateTest
    \/ CreateAttempt
    \/ \E w \in Workers : CountActiveTests(w)
    \/ \E w \in Workers : PollError(w)
    \/ \E w \in Workers : SelectAttempt(w)
    \/ \E w \in Workers : Wake(w)
    \/ \E w \in Workers : GetTests(w)
    \/ \E w \in Workers : ClaimLoad(w)
    \/ \E w \in Workers : ClaimWrite(w)
    \/ \E w \in Workers : Evaluate(w)
    \/ \E w \in Workers : Aggregate(w)
    \/ \E w \in Workers : CrashRestart(w)

Spec == Init /\ [][Next]_vars

\* The tasker whose loop goes through the functions of database-service.ts.
NextService ==
    \/ CreateTest
    \/ CreateAttempt
    \/ \E w \in Workers : PollService(w)
    \/ \E w \in Workers : Wake(w)
    \/ \E w \in Workers : GetTestsService(w)
    \/ \E w \in Workers : ClaimLoad(w)
    \/ \E w \in Workers : ClaimWrite(w)
    \/ \E w \in Workers : Evaluate(w)
    \/ \E w \in Workers : Aggregate(w)
    \/ \E w \in Workers : CrashRestart(w)

SpecService == Init /\ [][NextService]_vars

\* The same program, with one or another history recorded along the way.
SpecWriters == InitObserving({"writers"}) /\ [][Next]_vars
SpecClaimers == InitObserving({"claimers"}) /\ [][Next]_vars
SpecClaimed == InitObserving({"claimedInRun"}) /\ [][Next]_vars
SpecValid == InitObserving({"validInRun"}) /\ [][Next]_vars
SpecHeld == InitObserving({"held"}) /\ [][Next]_vars

\* Any step of the loop of tasker process w (not its crash).
WorkerStep(w) ==
    \/ CountActiveTests(w) \/ PollError(w) \/ SelectAttempt(w) \/ Wake(w)
    \/ GetTests(w) \/ ClaimLoad(w) \/ ClaimWrite(w) \/ Evaluate(w) \/ Aggregate(w)

\* Every tasker process keeps running: the event loop resumes each pending
\* await, the evaluator always returns, the sleep always ends, and a crashed
\* process is started again.
SpecFair == Init /\ [][Next]_vars /\ \A w \in Workers : WF_vars(WorkerStep(w))

\* A single tasker process (process 1) against the store, restarted by its
\* supervisor whenever it crashes.
NextSolo ==
    \/ CreateTest
    \/ CreateAttempt
    \/ WorkerStep(1)
    \/ CrashRestart(1)

SpecSolo == Init /\ [][NextSolo]_vars /\ WF_vars(WorkerStep(1))

\* The same program with one more attempt queued behind the others, and the
\* order in which each process takes up attempts recorded.
NextQueued ==
    \/ CreateTest
    \/ CreateAttemptUpTo(MaxAttempts + 1)
    \/ \E w \in Workers : WorkerStep(w)
    \/ \E w \in Workers : CrashRestart(w)

SpecOrder == InitObserving({"order"}) /\ [][NextQueued]_vars

\* ------------------------------------------------------- stored columns
\* uncompressedTotalTokens: test.totalTokens || 0
uncompressedTotalTokens(row) == IF row.totalTokens = Null THEN 0 ELSE row.totalTokens[1]

\* What evaluateCompression can hand back for a test with this row.  Its
\* compressionRatio is uncompressedTotalTokens divided by the total_tokens of
\* the compressed evaluation, and 0 when that count is not positive: 0 for a
\* numerator of 0, positive when the compressed evaluation passed (it then
\* completed a call), any ratio when it failed.
OutcomesFor(row) ==
    {res \in EvaluationOutcomes :
        \/ res.kind = "threw"
        \/ /\ uncompressedTotalTokens(row) = 0 => res.compressionRatio = 0
           /\ (uncompressedTotalTokens(row) > 0 /\ res.kind = "passed")
                 => res.compressionRatio > 0}

\* The loop body evaluating the claimed test.
EvaluateTest(w) ==
    /\ pc[w] = "evaluate"
    /\ \E res \in OutcomesFor(testRows[CurrentTest(w)]) : EvaluateWith(w, res)

\* The tests in the table: created through POST /tests (no totalTokens) or
\* stored by the ingestion (totalTokens from the usage).
InitColumns ==
    /\ tests \in UNION {[1..n -> BOOLEAN] : n \in 0..MaxTests}
    /\ testRows \in [1..Len(tests) -> [payload : 1..MaxTests, isActive : BOOLEAN,
                                        totalTokens : {Null} \cup {<<n>> : n \in 1..MaxTokens}]]
    /\ \A i \in 1..Len(tests) : testRows[i].payload = i /\ testRows[i].isActive = tests[i]
    /\ InitProcesses({"stored"})

NextColumns ==
    \/ CreateTest
    \/ CreateAttempt
    \/ \E w \in Workers : CountActiveTests(w)
    \/ \E w \in Workers : PollError(w)
    \/ \E w \in Workers : SelectAttempt(w)
    \/ \E w \in Workers : Wake(w)
    \/ \E w \in Workers : GetTests(w)
    \/ \E w \in Workers : ClaimLoad(w)
    \/ \E w \in Workers : ClaimWrite(w)
    \/ \E w \in Workers : EvaluateTest(w)
    \/ \E w \in Workers : Aggregate(w)
    \/ \E w \in Workers : CrashRestart(w)

SpecColumns == InitColumns /\ [][NextColumns]_vars

\* --------------------------------------------------------- database errors
\* The INSERT of the claim fails with an error that is not the key conflict
\* (the statement times out, the connection drops): nothing is written.  The
\* catch around the claim has no condition, so it `continue`s as for a lost race.
ClaimDbError(w) ==
    /\ pc[w] = "claimWrite"
    /\ dbErrors < MaxDbErrors
    /\ dbErrors' = dbErrors + 1
    /\ loaded' = [loaded EXCEPT ![w] = NONE]
    /\ NextTest(w)
    /\ UNCHANGED <<dbVars, connected, activeTestsCount, attempt, testsToProcess,
                   testsPassed, totalCompressionRatio, errorLogged, crashes, histVars,
                   observed, ingestVars, evalVars, uncompressedVars, apiVars>>

\* The evaluation has returned (or thrown) and the save that finalizes the row fails: the
\* catch block sets FAILED and saves again.  When that save goes through the
\* row is FAILED and processAttempt returns; when it fails as well the error
\* leaves processAttempt, the catch of the loop logs it and the loop starts
\* over at once.
FinalizeDbError(w) ==
    /\ pc[w] = "evaluate"
    /\ dbErrors < MaxDbErrors
    /\ dbErrors' = dbErrors + 1
    /\ \E secondFails \in BOOLEAN :
          IF secondFails
          THEN /\ errorLogged' = [errorLogged EXCEPT ![w] = TRUE]
               /\ UNCHANGED <<testResults, writers, held, stored>>
          ELSE /\ testResults' = [testResults EXCEPT ![CurrentKey(w)].status = FAILED]
               /\ \E res \in EvaluationOutcomes :
                     stored' = Recorded("stored",
                                  [stored EXCEPT ![CurrentKey(w)] = ColumnsOf(res)], stored)
               /\ writers' = Recorded("writers",
                                [writers EXCEPT ![CurrentKey(w)] = @ \cup {w}], writers)
               /\ held' = [held EXCEPT ![w] = @ \ {CurrentKey(w)}]
               /\ errorLogged' = errorLogged
    /\ ReturnToLoop(w)
    /\ UNCHANGED <<tests, testRows, attempts, connected, loaded, crashes, claimers,
                   claimedInRun, validInRun, completion, lastProcessed, observed,
                   ingestVars, evalVars, uncompressedVars, apiVars>>

\* attemptRepo.save(attempt) of the aggregation fails: its own catch logs the
\* error and processAttempt returns.
AggregateDbError(w) ==
    /\ pc[w] = "aggregate"
    /\ dbErrors < MaxDbErrors
    /\ dbErrors' = dbErrors + 1
    /\ ReturnToLoop(w)
    /\ UNCHANGED <<dbVars, connected, loaded, errorLogged, crashes, histVars, observed,
                   ingestVars, evalVars, uncompressedVars, apiVars>>

\* The tasker against a database that may fail a write.
NextFaulty ==
    \/ Next
    \/ \E w \in Workers : ClaimDbError(w)
    \/ \E w \in Workers : FinalizeDbError(w)
    \/ \E w \in Workers : AggregateDbError(w)

SpecFaulty == Init /\ [][NextFaulty]_vars

\* ----------------------------------------------- uncompressed evaluation
\* The step of run() ahead of the attempt selection: find the active tests
\* whose uncompressedStatus is null and start evaluateUncompressedTest for
\* each of them (Promise.all); the entities found all carry a null status, so
\* none of the calls returns at its first check.
FindUncompressed(w) ==
    /\ \A t \in TestIds : upc[w][t] \in {"none", "done"}
    /\ upc' = [upc EXCEPT ![w] =
                  [t \in TestIds |->
                      IF t \in ActiveTests /\ uncompressedStatus[t] = NULL
                      THEN "lock" ELSE "none"]]
    /\ upc' # upc
    /\ UNCHANGED <<dbVars, localVars, crashes, histVars, observed, ingestVars, evalVars,
                   faultVars, apiVars, uncompressedStatus, evaluators>>

\* evaluateUncompressedTest up to its call of evaluatePrompt:
\* test.uncompressedStatus = PENDING; await testRepo.save(test).  The entity
\* has its primary key, so save() UPDATEs the row (or finds nothing to
\* update) whatever its status is by now; it does not throw, and the catch
\* that assumes another instance holds the lock is never entered.
LockUncompressed(w, t) ==
    /\ upc[w][t] = "lock"
    /\ uncompressedStatus' = [uncompressedStatus EXCEPT ![t] = PENDING]
    /\ upc' = [upc EXCEPT ![w][t] = "evaluate"]
    /\ evaluators' = [evaluators EXCEPT ![t] = @ \cup {w}]
    /\ UNCHANGED <<dbVars, localVars, crashes, histVars, observed, ingestVars, evalVars,
                   faultVars, apiVars>>

\* evaluatePrompt returns and the outcome is saved.
FinishUncompressed(w, t) ==
    /\ upc[w][t] = "evaluate"
    /\ \E passed \in BOOLEAN :
          uncompressedStatus' = [uncompressedStatus EXCEPT
                                    ![t] = IF passed THEN VALID ELSE FAILED]
    /\ upc' = [upc EXCEPT ![w][t] = "done"]
    /\ UNCHANGED <<dbVars, localVars, crashes, histVars, observed, ingestVars, evalVars,
                   faultVars, apiVars, evaluators>>

NextUncompressed ==
    \/ CreateTest
    \/ \E w \in Workers : FindUncompressed(w)
    \/ \E w \in Workers : \E t \in TestIds : LockUncompressed(w, t)
    \/ \E w \in Workers : \E t \in TestIds : FinishUncompressed(w, t)

SpecUncompressed == Init /\ [][NextUncompressed]_vars

\* -------------------------------------------------------------- the API
nonApiVars == <<dbVars, localVars, crashes, histVars, observed, ingestVars, evalVars,
                faultVars, uncompressedVars>>

\* ADMIN_DEFAULT_LOGIN and ADMIN_DEFAULT_EMAIL.
adminLogin == 1
adminEmail == 1

\* userRepository.findOne({ where: [{ login }, { email }] }): a row matching
\* either condition.
existingUser(table, login, email) == \E u \in table : u.login = login \/ u.email = email

\* The row seedAdminUser looks for.
existingAdmin(table, login, email) == existingUser(table, login, email)

\* userRepository.save(entity) of an entity with its primary key set: the
\* table afterwards, or "threw" in place of it.  The row with this login is
\* UPDATEd when there is one, a new row INSERTed otherwise; either statement
\* fails on the unique email of another row.
saveUser(table, entity) ==
    LET others == {u \in table : u.login # entity.login}
    IN  IF \E u \in others : u.email = entity.email
        THEN [threw |-> TRUE, table |-> table]
        ELSE [threw |-> FALSE, table |-> others \cup {entity}]

\* The entity with the isAdmin the column defaults to.
adminUserByDefault == [login |-> adminLogin, email |-> adminEmail, isAdmin |-> FALSE]

\* The entity seedAdminUser builds: adminUser.isAdmin = true.
adminUser == [login |-> adminLogin, email |-> adminEmail, isAdmin |-> TRUE]

\* The process starts (again): its memory is fresh, requests in flight are
\* gone.  AppDataSource.initialize() resolves and seedAdminUser is called
\* before app.listen; with the admin environment not fully set it returns
\* at once.
StartApi ==
    /\ starts < MaxStarts
    /\ apiPc \in {"down", "listening"}
    /\ starts' = starts + 1
    /\ successfulRegistrationsLocal' = 0
    /\ registered' = 0
    /\ regPc' = [r \in Requests |-> "none"]
    /\ regBody' = [r \in Requests |-> NoBody]
    /\ \E configured \in BOOLEAN :
          IF configured
          THEN apiPc' = "seedFind" /\ seedLog' = "none"
          ELSE apiPc' = "listening" /\ seedLog' = "skipped"
    /\ UNCHANGED <<nonApiVars, users>>

\* const existingAdmin = await userRepository.findOne(...) and the branch on it.
SeedFind ==
    /\ apiPc = "seedFind"
    /\ IF existingAdmin(users, adminLogin, adminEmail)
       THEN apiPc' = "listening" /\ seedLog' = "exists"
       ELSE apiPc' = "seedSave" /\ seedLog' = seedLog
    /\ UNCHANGED <<nonApiVars, users, starts, successfulRegistrationsLocal, regPc, regBody,
                   registered>>

\* await userRepository.save(adminUser), in the try whose catch logs.
SeedSave ==
    /\ apiPc = "seedSave"
    /\ users' = saveUser(users, adminUser).table
    /\ seedLog' = IF saveUser(users, adminUser).threw THEN "error" ELSE "created"
    /\ apiPc' = "listening"
    /\ UNCHANGED <<nonApiVars, starts, successfulRegistrationsLocal, regPc, regBody,
                   registered>>

\* REGISTRATIONS limit of the inline check.
RegistrationLimit == 2

\* POST /register arrives from the client IP: the inline check of the count,
\* 429 when it has reached the limit.
RegisterCheck(r) ==
    /\ apiPc = "listening"
    /\ regPc[r] = "none"
    /\ IF successfulRegistrationsLocal >= RegistrationLimit
       THEN /\ regPc' = [regPc EXCEPT ![r] = "429"]
            /\ regBody' = regBody
       ELSE /\ regPc' = [regPc EXCEPT ![r] = "validate"]
            /\ \E login \in Names : \E email \in Names :
                  regBody' = [regBody EXCEPT ![r] = [login |-> login, email |-> email]]
    /\ UNCHANGED <<nonApiVars, users, apiPc, starts, seedLog, successfulRegistrationsLocal,
                   registered>>

\* validateRegistration: the lookups by login and by email; 400 when either
\* finds a row.
RegisterValidate(r) ==
    /\ apiPc = "listening"
    /\ regPc[r] = "validate"
    /\ IF existingUser(users, regBody[r].login, regBody[r].email)
       THEN /\ regPc' = [regPc EXCEPT ![r] = "400"]
            /\ regBody' = [regBody EXCEPT ![r] = NoBody]
       ELSE /\ regPc' = [regPc EXCEPT ![r] = "save"]
            /\ regBody' = regBody
    /\ UNCHANGED <<nonApiVars, users, apiPc, starts, seedLog, successfulRegistrationsLocal,
                   registered>>

\* await userRepository.save(newUser); then the count for the IP is
\* incremented and the response sent; 500 when the save throws.
RegisterSave(r) ==
    /\ apiPc = "listening"
    /\ regPc[r] = "save"
    /\ LET saved == saveUser(users, [login |-> regBody[r].login, email |-> regBody[r].email,
                                     isAdmin |-> FALSE])
       IN  /\ users' = saved.table
           /\ IF saved.threw
              THEN /\ regPc' = [regPc EXCEPT ![r] = "500"]
                   /\ UNCHANGED <<successfulRegistrationsLocal, registered>>
              ELSE /\ regPc' = [regPc EXCEPT ![r] = "302"]
                   /\ successfulRegistrationsLocal' = successfulRegistrationsLocal + 1
                   /\ registered' = registered + 1
    /\ regBody' = [regBody EXCEPT ![r] = NoBody]
    /\ UNCHANGED <<nonApiVars, apiPc, starts, seedLog>>

NextApi ==
    \/ StartApi
    \/ SeedFind
    \/ SeedSave
    \/ \E r \in Requests : RegisterCheck(r)
    \/ \E r \in Requests : RegisterValidate(r)
    \/ \E r \in Requests : RegisterSave(r)

SpecApi == tests = <<>> /\ testRows = <<>> /\ InitProcesses({}) /\ [][NextApi]_vars

\* ------------------------------------------------------------- ingestion
\* (model, payload) values and token counts of the test cases handed in.
Payloads == 1..MaxTests
Tokens == 1..MaxTokens
Batches == UNION {[1..n -> [payload : Payloads, totalTokens : Tokens]] : n \in 0..MaxBatch}

\* Index of the row with this (model, payload), 0 when there is none.
RowWithPayload(rows, p) ==
    IF \E i \in 1..Len(rows) : rows[i].payload = p
    THEN CHOOSE i \in 1..Len(rows) : rows[i].payload = p
    ELSE 0

\* The entity built for a test case: isActive true, totalTokens from the usage.
TestEntity(e) ==
    [payload |-> e.payload, isActive |-> TRUE, totalTokens |-> <<e.totalTokens>>]

\* The conflict action TypeORM's upsert emits: ON CONFLICT (model, payload)
\* DO UPDATE SET every column the entities define = EXCLUDED.column, WHERE any
\* of them IS DISTINCT FROM it (skipUpdateIfNoValuesChanged).
OverwriteExisting(row, e) == TestEntity(e)

\* INSERT ... VALUES batch ... ON CONFLICT ... DO UPDATE, row by row from
\* position k on: st = [rows, touched, threw].  A proposed row that conflicts
\* with a row this same statement has inserted or updated makes the
\* statement fail ("cannot affect row a second time").
RECURSIVE UpsertFrom(_, _, _)
UpsertFrom(st, batch, k) ==
    IF k > Len(batch) \/ st.threw THEN st
    ELSE LET e == batch[k]
             i == RowWithPayload(st.rows, e.payload)
         IN  IF i = 0
             THEN UpsertFrom([st EXCEPT !.rows = Append(@, TestEntity(e)),
                                        !.touched = @ \cup {e.payload}], batch, k + 1)
             ELSE IF e.payload \in st.touched
             THEN [st EXCEPT !.threw = TRUE]
             ELSE IF OverwriteExisting(st.rows[i], e) # st.rows[i]
             THEN UpsertFrom([st EXCEPT !.rows[i] = OverwriteExisting(st.rows[i], e),
                                        !.touched = @ \cup {e.payload}], batch, k + 1)
             ELSE UpsertFrom(st, batch, k + 1)

\* testRepository.upsert(testEntities, ...): the table afterwards (unchanged
\* when the statement failed) and whether it threw.
upsert(rows, batch) ==
    LET st == UpsertFrom([rows |-> rows, touched |-> {}, threw |-> FALSE], batch, 1)
    IN  IF st.threw THEN [rows |-> rows, threw |-> TRUE] ELSE [rows |-> st.rows, threw |-> FALSE]

\* result.identifiers.length: the ORM pushes one identifier per entity it was
\* given, whether the row was inserted, updated or left alone.
IdentifiersLength(rows, batch) == Len(batch)

\* storeProcessedTestCases(testCaseResults, model, datasetName): the table
\* afterwards and the value returned, or "threw".
storeProcessedTestCases(rows, batch) ==
    IF Len(batch) = 0 THEN [rows |-> rows, result |-> 0]
    ELSE LET r == upsert(rows, batch)
         IN  IF r.threw THEN [rows |-> rows, result |-> "threw"]
             ELSE [rows |-> r.rows, result |-> IdentifiersLength(rows, batch)]

\* One run of the ingestion tool: a call of storeProcessedTestCases.
StoreTestCases ==
    /\ upsertCalls < MaxCalls
    /\ \E batch \in Batches :
          LET r == storeProcessedTestCases(testRows, batch)
          IN  /\ Len(r.rows) <= MaxTests
              /\ testRows' = r.rows
              /\ tests' = [i \in 1..Len(r.rows) |-> r.rows[i].isActive]
              /\ upsertBatch' = batch
              /\ upsertResult' = r.result
    /\ upsertCalls' = upsertCalls + 1
    /\ UNCHANGED <<attempts, testResults, localVars, crashes, histVars, observed, evalVars, faultVars,
                   uncompressedVars, apiVars>>

\* The test table before the ingestion runs: rows created earlier, some of
\* them deactivated since.
InitIngest ==
    /\ tests \in UNION {[1..n -> BOOLEAN] : n \in 0..MaxTests}
    /\ testRows \in [1..Len(tests) -> [payload : Payloads, isActive : BOOLEAN,
                                        totalTokens : {<<n>> : n \in Tokens}]]
    /\ \A i \in 1..Len(tests) : testRows[i].payload = i /\ testRows[i].isActive = tests[i]
    /\ InitProcesses({})

SpecIngest == InitIngest /\ [][StoreTestCases]_vars

\* ------------------------------------------------------------------ JSON
\* A JSON value in memory is <<"string", s>>, <<"boolean", b>>, <<"null">>,
\* <<"array", items>> or <<"object", members>>, members being the <<key, value>>
\* pairs in insertion order.  A JSON text is the sequence of its tokens.
JsonString(s) == <<"string", s>>
JsonBoolean(b) == <<"boolean", b>>
JsonNull == <<"null">>
JsonArray(items) == <<"array", items>>
JsonObject(members) == <<"object", members>>

\* The inputs of the evaluator that vary, and the ones that do not.
Tasks == {"task", "another task"}
CompressedTasks == {"tsk", "t"}
options == <<"yes", "no">>
evaluationModel == "evaluation model"
compressionModel == "compression model"
compressingPrompt == "Compress the task"

\* Every key of the payloads, in the order of Array.prototype.sort (UTF-16
\* code units): "tool_choice" before "tools" since "_" < "s".
KeyOrder ==
    <<"additionalProperties", "answer", "compression", "content", "description", "enum",
      "evaluationCompressed", "evaluationUncompressed", "function", "messages", "model",
      "name", "parameters", "properties", "required", "role", "strict", "tool_choice",
      "tools", "type">>

\* Every string the payloads hold.
PayloadStrings ==
    {KeyOrder[i] : i \in 1..Len(KeyOrder)} \cup Tasks \cup CompressedTasks
    \cup {options[i] : i \in 1..Len(options)}
    \cup {evaluationModel, compressionModel, compressingPrompt, "system", "user", "function",
          "answer_question", "Return exactly one of the provided options", "object", "string",
          "Answer user's question by calling answer_question function"}

\* JSON.stringify of a string without characters to escape, and its inverse.
Quote(s) == "\"" \o s \o "\""
Unquote(token) == CHOOSE s \in PayloadStrings : Quote(s) = token

\* Object.keys(node).sort()
SortedKeys(members) ==
    SelectSeq(KeyOrder, LAMBDA k : \E i \in 1..Len(members) : members[i][1] = k)

\* node[key]
Member(members, key) == members[CHOOSE i \in 1..Len(members) : members[i][1] = key][2]

RECURSIVE stringify(_), StringifyItems(_, _), StringifyMembers(_, _, _)

\* fast-json-stable-stringify: the text of a value, the members of every
\* object in the order of their sorted keys.
stringify(node) ==
    CASE node[1] = "string" -> <<Quote(node[2])>>
      [] node[1] = "boolean" -> <<IF node[2] THEN "true" ELSE "false">>
      [] node[1] = "null" -> <<"null">>
      [] node[1] = "array" -> <<"[">> \o StringifyItems(node[2], 1) \o <<"]">>
      [] node[1] = "object" ->
            <<"{">> \o StringifyMembers(node[2], SortedKeys(node[2]), 1) \o <<"}">>

StringifyItems(items, i) ==
    IF i > Len(items) THEN <<>>
    ELSE (IF i > 1 THEN <<",">> ELSE <<>>) \o stringify(items[i]) \o StringifyItems(items, i + 1)

StringifyMembers(members, keys, i) ==
    IF i > Len(keys) THEN <<>>
    ELSE (IF i > 1 THEN <<",">> ELSE <<>>) \o <<Quote(keys[i]), ":">>
         \o stringify(Member(members, keys[i])) \o StringifyMembers(members, keys, i + 1)

RECURSIVE ParseValue(_, _), ParseItems(_, _, _), ParseMembers(_, _, _)

\* The value whose text starts at token i, and the position after it.
ParseValue(text, i) ==
    CASE text[i] = "{" ->
            IF text[i + 1] = "}" THEN [value |-> JsonObject(<<>>), next |-> i + 2]
            ELSE ParseMembers(text, i + 1, <<>>)
      [] text[i] = "[" ->
            IF text[i + 1] = "]" THEN [value |-> JsonArray(<<>>), next |-> i + 2]
            ELSE ParseItems(text, i + 1, <<>>)
      [] text[i] = "null" -> [value |-> JsonNull, next |-> i + 1]
      [] text[i] \in {"true", "false"} ->
            [value |-> JsonBoolean(text[i] = "true"), next |-> i + 1]
      [] OTHER -> [value |-> JsonString(Unquote(text[i])), next |-> i + 1]

ParseItems(text, i, items) ==
    LET item == ParseValue(text, i)
        items2 == Append(items, item.value)
    IN  IF text[item.next] = "," THEN ParseItems(text, item.next + 1, items2)
        ELSE [value |-> JsonArray(items2), next |-> item.next + 1]

ParseMembers(text, i, members) ==
    LET member == ParseValue(text, i + 2)
        members2 == Append(members, <<Unquote(text[i]), member.value>>)
    IN  IF text[member.next] = "," THEN ParseMembers(text, member.next + 1, members2)
        ELSE [value |-> JsonObject(members2), next |-> member.next + 1]

\* JSON.parse: the members of an object in the order of the text.
JsonParse(text) == ParseValue(text, 1).value

\* buildAnswerQuestionTools({ options })
buildAnswerQuestionTools(opts) ==
    JsonArray(<<JsonObject(<<
        <<"type", JsonString("function")>>,
        <<"function", JsonObject(<<
            <<"strict", JsonBoolean(TRUE)>>,
            <<"name", JsonString("answer_question")>>,
            <<"description", JsonString("Return exactly one of the provided options")>>,
            <<"parameters", JsonObject(<<
                <<"type", JsonString("object")>>,
                <<"properties", JsonObject(<<
                    <<"answer", JsonObject(<<
                        <<"type", JsonString("string")>>,
                        <<"enum", JsonArray([i \in 1..Len(opts) |-> JsonString(opts[i])])>>
                    >>)>>
                >>)>>,
                <<"required", JsonArray(<<JsonString("answer")>>)>>,
                <<"additionalProperties", JsonBoolean(FALSE)>>
            >>)>>
        >>)>>
    >>)>>)

\* The messages grown by one user message for every call made before.
messagesKept(system, content) ==
    JsonArray(<<JsonObject(<<<<"role", JsonString("system")>>,
                             <<"content", JsonString(system)>>>>)>>
              \o [i \in 1..(Len(evalLog) + 1) |->
                     JsonObject(<<<<"role", JsonString("user")>>,
                                  <<"content", JsonString(content)>>>>)])

\* const messages = [{ role: 'system', content: ... }, { role: 'user', content: task }]
messages(system, content) ==
    JsonArray(<<JsonObject(<<<<"role", JsonString("system")>>,
                             <<"content", JsonString(system)>>>>),
                JsonObject(<<<<"role", JsonString("user")>>,
                             <<"content", JsonString(content)>>>>)>>)

\* requestPayload of getModelAnswer
answerRequestPayload(content, opts, model) ==
    JsonObject(<<
        <<"model", JsonString(model)>>,
        <<"messages", messages("Answer user's question by calling answer_question function",
                               content)>>,
        <<"tools", buildAnswerQuestionTools(opts)>>,
        <<"tool_choice", JsonObject(<<
            <<"type", JsonString("function")>>,
            <<"function", JsonObject(<<<<"name", JsonString("answer_question")>>>>)>>
        >>)>>
    >>)

\* requestPayload of getCompressedTask
compressionRequestPayload(content, prompt, model) ==
    JsonObject(<<<<"model", JsonString(model)>>, <<"messages", messages(prompt, content)>>>>)

\* requestJson of getModelAnswer for each task it can be given:
\* stringify(requestPayload).
answerRequestJson ==
    [content \in Tasks \cup CompressedTasks |->
        stringify(answerRequestPayload(content, options, evaluationModel))]

\* requestJson of getCompressedTask for each task: stringify(requestPayload).
compressionRequestJsonOf ==
    [content \in Tasks |->
        stringify(compressionRequestPayload(content, compressingPrompt, compressionModel))]

\* JSON.parse of a requestJson, null for a falsy one.
ParsedOrNull(json) == IF json = Null THEN JsonNull ELSE JsonParse(json)

\* const requests = { compression, evaluationUncompressed, evaluationCompressed }
\* and stringify(requests)
CombinedRequestJson(compressionJson, uncompressedJson, compressedJson) ==
    stringify(JsonObject(<<
        <<"compression", JsonParse(compressionJson)>>,
        <<"evaluationUncompressed", ParsedOrNull(uncompressedJson)>>,
        <<"evaluationCompressed", ParsedOrNull(compressedJson)>>
    >>))

\* ------------------------------------------------------------- evaluator
\* response.usage of a gateway call that completed.
Usages ==
    {[prompt_tokens |-> p, completion_tokens |-> 1, total_tokens |-> p + 1] : p \in Tokens}

\* What one getModelAnswer call comes to: "error" (the request fails, or the
\* response has no tool call or no usage: getModelAnswer throws), or a
\* response with usage whose answer is the correct one ("right"), another
\* option ("wrong"), or missing from the tool-call arguments ("noAnswer").
GatewayOutcomes ==
    {[kind |-> "error", usage |-> ZeroUsage]}
    \cup [kind : {"right", "wrong", "noAnswer"}, usage : Usages]

\* The accumulator overwritten with the usage of the latest call.
LatestUsage(total, usage) == usage

\* totalUsage.x += usage.x for the three counters.
AddUsage(total, usage) ==
    [prompt_tokens |-> total.prompt_tokens + usage.prompt_tokens,
     completion_tokens |-> total.completion_tokens + usage.completion_tokens,
     total_tokens |-> total.total_tokens + usage.total_tokens]

\* evaluatePrompt before its first iteration: with attempts <= 0 the for-loop
\* is skipped and it returns passed: true at once; otherwise it is running.
PromptStart(n) ==
    IF n <= 0 THEN [passed |-> TRUE, usage |-> ZeroUsage] ELSE Null

\* One iteration of the for-loop of evaluatePrompt, its gateway call coming
\* to outcome o: the log and totalUsage afterwards, and what evaluatePrompt
\* returns in this iteration (Null: the loop goes on).  A throwing
\* getModelAnswer, and isCorrect throwing on a missing answer, end in the
\* inner catch, which returns passed: false.
PromptStep(log, usage, n, o) ==
    LET log2 == Append(log, o)
        usage2 == IF o.kind = "error" THEN usage ELSE AddUsage(usage, o.usage)
    IN  [log |-> log2,
         usage |-> usage2,
         return |-> IF o.kind = "right"
                    THEN IF Len(log2) >= n THEN [passed |-> TRUE, usage |-> usage2]
                         ELSE Null
                    ELSE [passed |-> FALSE, usage |-> usage2]]

\* The quotient of a division by zero.
Infinity == <<1, 0>>

\* compressionRatio = uncompressedPromptTokens > 0
\*     ? uncompressedPromptTokens / compressedPromptTokens : 0
compressionRatioOf(uncompressedPromptTokens, compressedPromptTokens) ==
    IF uncompressedPromptTokens > 0
    THEN IF compressedPromptTokens = 0 THEN Infinity
         ELSE Float(uncompressedPromptTokens, compressedPromptTokens)
    ELSE Float(0, 1)

\* What is kept of a call that has returned: its inputs, what the gateway
\* gave it, and the request texts it produced.
ReturnedCall ==
    [task |-> task, attempts |-> evalAttempts, compressedTask |-> compressedTask,
     completed |-> completed, passed |-> evalReturn.passed,
     uncompressedRequestJson |-> uncompressedRequestJson, requestJson |-> requestJson]

\* evaluateCompression is called (one test case) with some attemptsPerTest:
\* Promise.all starts evaluatePrompt on the uncompressed task and
\* getCompressedTask side by side.  evalPc says which of the two is pending:
\* "both", "uncompressed" (the compression has resolved), "compress" (the
\* evaluation has returned), "joined" (neither).
StartEvaluation ==
    /\ evalPc \in {"idle", "done", "threw"}
    /\ \E n \in 0..MaxEvalAttempts :
          /\ evalAttempts' = n
          /\ evalReturn' = PromptStart(n)
          /\ uncompressedResult' = PromptStart(n)
          /\ evalPc' = IF PromptStart(n) = Null THEN "both" ELSE "compress"
    /\ evalLog' = <<>>
    /\ evalUsage' = ZeroUsage
    /\ compressionRatio' = Null
    /\ \E t \in Tasks : task' = Recorded("requests", t, task)
    /\ previous' = Recorded("requests", IF evalPc = "done" THEN ReturnedCall ELSE previous,
                            previous)
    /\ lastRequestJson' = Null
    /\ uncompressedRequestJson' = Null
    /\ compressionRequestJson' = Null
    /\ requestJson' = Null
    /\ compressedTask' = ""
    /\ completed' = NoneCompleted
    /\ UNCHANGED <<dbVars, localVars, crashes, histVars, observed, ingestVars, faultVars,
                   uncompressedVars, apiVars>>

\* The steps after the compressed evaluatePrompt has returned r with
\* r.requestJson: the metrics and the combined requests.
Metrics(r, compressedRequestJson) ==
    /\ evalReturn' = r
    /\ compressionRatio' = compressionRatioOf(uncompressedResult.usage.prompt_tokens,
                                              r.usage.prompt_tokens)
    /\ requestJson' = Recorded("requests",
                               CombinedRequestJson(compressionRequestJson,
                                                   uncompressedRequestJson,
                                                   compressedRequestJson),
                               requestJson)
    /\ evalPc' = "done"

\* testCase.task of the running evaluatePrompt: the compressed task in the
\* second one.
CurrentTask == IF evalPc = "compressed" THEN compressedTask ELSE task

\* lastRequestJson after a getModelAnswer call that came to o: set from the
\* requestJson it returned, left alone when it threw.
LastRequestJson(last, o) ==
    IF o.kind = "error" THEN last
    ELSE answerRequestJson[CurrentTask]

\* Which evaluations have had a getModelAnswer call return, after this one.
Completed(done, o) ==
    IF o.kind = "error" THEN done
    ELSE IF evalPc = "compressed" THEN [done EXCEPT !.compressed = TRUE]
    ELSE [done EXCEPT !.uncompressed = TRUE]

\* One gateway call of the running evaluatePrompt returns or fails.
AnswerCall ==
    /\ evalPc \in {"both", "uncompressed", "compressed"}
    /\ \E o \in GatewayOutcomes :
          LET r == PromptStep(evalLog, evalUsage, evalAttempts, o)
              json == LastRequestJson(lastRequestJson, o)
          IN  /\ evalLog' = r.log
              /\ evalUsage' = r.usage
              /\ lastRequestJson' = Recorded("requests", json, lastRequestJson)
              /\ completed' = Recorded("requests", Completed(completed, o), completed)
              /\ IF r.return = Null
                 THEN UNCHANGED <<evalPc, evalReturn, uncompressedResult, compressionRatio,
                                  uncompressedRequestJson, requestJson>>
                 ELSE IF evalPc = "compressed"
                 THEN /\ Metrics(r.return, json)
                      /\ UNCHANGED <<uncompressedResult, uncompressedRequestJson>>
                 ELSE /\ evalReturn' = r.return
                      /\ uncompressedResult' = r.return
                      /\ uncompressedRequestJson' =
                            Recorded("requests", json, uncompressedRequestJson)
                      /\ evalPc' = IF evalPc = "both" THEN "compress" ELSE "joined"
                      /\ UNCHANGED <<compressionRatio, requestJson>>
    /\ UNCHANGED <<dbVars, localVars, crashes, histVars, observed, ingestVars, faultVars,
                   uncompressedVars, apiVars, evalAttempts, task, compressedTask,
                   compressionRequestJson, previous>>

\* getCompressedTask returns the compressed task, or throws: then
\* Promise.all rejects and evaluateCompression throws.
CompressCall ==
    /\ evalPc \in {"both", "compress"}
    /\ \E compressed \in BOOLEAN :
          /\ evalPc' = IF ~compressed THEN "threw"
                       ELSE IF evalPc = "both" THEN "uncompressed" ELSE "joined"
          /\ IF compressed
             THEN /\ \E c \in CompressedTasks :
                        compressedTask' = Recorded("requests", c, compressedTask)
                  /\ compressionRequestJson' =
                        Recorded("requests", compressionRequestJsonOf[task],
                                 compressionRequestJson)
             ELSE UNCHANGED <<compressedTask, compressionRequestJson>>
    /\ UNCHANGED <<dbVars, localVars, crashes, histVars, observed, ingestVars, faultVars,
                   uncompressedVars, apiVars, evalAttempts,
                   evalLog, evalUsage, evalReturn, uncompressedResult, compressionRatio,
                   task, lastRequestJson, uncompressedRequestJson, requestJson, completed,
                   previous>>

\* Promise.all has resolved: evaluatePrompt is called on the compressed task.
EvaluateCompressed ==
    /\ evalPc = "joined"
    /\ evalLog' = <<>>
    /\ evalUsage' = ZeroUsage
    /\ lastRequestJson' = Null
    /\ IF PromptStart(evalAttempts) = Null
       THEN /\ evalReturn' = Null
            /\ evalPc' = "compressed"
            /\ UNCHANGED <<compressionRatio, requestJson>>
       ELSE Metrics(PromptStart(evalAttempts), Null)
    /\ UNCHANGED <<dbVars, localVars, crashes, histVars, observed, ingestVars, faultVars,
                   uncompressedVars, apiVars, evalAttempts,
                   uncompressedResult, task, compressedTask, uncompressedRequestJson,
                   compressionRequestJson, completed, previous>>

NextEvaluate ==
    \/ StartEvaluation
    \/ AnswerCall
    \/ CompressCall
    \/ EvaluateCompressed

SpecEvaluate == Init /\ [][NextEvaluate]_vars

\* The evaluator alone, its requests kept.
SpecRequests == tests = <<>> /\ testRows = <<>> /\ InitProcesses({"requests"})
                /\ [][NextEvaluate]_vars

TypeOK ==
    /\ Len(tests) <= MaxTests
    /\ Len(attempts) <= MaxAttempts + 1
    /\ \A k \in AttemptIds \X TestIds :
          testResults[k].status \in {NONE, PENDING, VALID, FAILED}
    /\ \A w \in Workers :
          pc[w] \in {"poll", "select", "sleep", "getTests", "claim", "claimWrite",
                     "evaluate", "aggregate"}

\* ----------------------------------------------------------------- claims
Keys == AttemptIds \X TestIds
Terminal == {VALID, FAILED}

\* The step is taken by process w and is not its crash.
Moves(w) == pc[w] # pc'[w] /\ crashes' = crashes

\* C1: for every (attempt_id, test_id), at most one tasker process ever
\* writes a non-PENDING status (VALID or FAILED) to that TestResult row.
C1_AtMostOneWriter == \A k \in Keys : Cardinality(writers[k]) <= 1

\* C2: a TestResult that is VALID or FAILED keeps its status in every later
\* step: no re-claim, later finalize or catch-block write changes it.
C2_MonotonicStatus ==
    [][\A k \in Keys : testResults[k].status \in Terminal
                          => testResults'[k].status = testResults[k].status]_vars

\* C3: of the processes that run the claim step for one (attempt_id, test_id),
\* exactly one has its claim succeed and goes on to evaluate; the others skip.
C3_OneClaimSucceeds == \A k \in Keys : Cardinality(claimers[k]) <= 1

\* C4: whenever an attempt's average_compression_ratio is non-null, every
\* test the completing process claimed for it has a VALID or FAILED row.
C4_CompletionLocality ==
    \A a \in AttemptTableIds :
        attempts[a].averageCompressionRatio # Null
            => \A t \in completion[a] : testResults[a, t].status \in Terminal

\* C5: no attempt has both a non-null average_compression_ratio and a
\* TestResult with status FAILED.
C5_NoAverageWithFailed ==
    \A a \in AttemptTableIds :
        ~(/\ attempts[a].averageCompressionRatio # Null
          /\ \E t \in TestIds : testResults[a, t].status = FAILED)

RECURSIVE SumRatios(_)
SumRatios(S) ==
    IF S = {} THEN 0
    ELSE LET p == CHOOSE q \in S : TRUE IN p[2] + SumRatios(S \ {p})

\* C6: the average that processAttempt sets equals the sum of the ratios of
\* the tests this process finalized VALID in this run divided by their
\* number, and is 0 when there is none.
C6_AggregationCorrect ==
    [][\A w \in Workers :
          (pc[w] = "aggregate" /\ Moves(w)) =>
             LET avg == attempts'[attempt[w]].averageCompressionRatio
                 n == Cardinality(validInRun[w])
             IN  /\ avg # Null
                 /\ IF n = 0 THEN avg = <<0, 1>>
                    ELSE avg[2] > 0 /\ avg[1] * n = SumRatios(validInRun[w]) * avg[2]]_vars

\* An attempt completed with two VALID tests of ratios 0 and 1: average 1/2.
C6_Witness ==
    \E a \in AttemptTableIds : attempts[a].averageCompressionRatio = <<1, 2>>

FailingOutcomes == {res \in EvaluationOutcomes : res.kind \in {"threw", "failed"}}

\* C7: when the evaluation of a claimed test throws or comes back FAILED, the
\* process leaves the row FAILED, leaves processAttempt at once (no further
\* claim or evaluation in this cycle) and does not touch the attempt's average.
C7_FailureAborts ==
    [][\A w \in Workers : \A res \in FailingOutcomes :
          EvaluateWith(w, res) =>
             /\ testResults'[CurrentKey(w)].status = FAILED
             /\ pc'[w] = "poll" /\ attempt'[w] = 0
             /\ attempts' = attempts]_vars

\* An attempt was aborted: one test FAILED, another active test never claimed,
\* no average, and no process is still inside processAttempt.
C7_Witness ==
    \E a \in AttemptTableIds : \E t \in ActiveTests : \E u \in ActiveTests :
        /\ testResults[a, t].status = FAILED
        /\ testResults[a, u].status = NONE
        /\ attempts[a].averageCompressionRatio = Null
        /\ \A w \in Workers : pc[w] \in {"poll", "select", "sleep"}

\* What the specification requires the selection to return in this state.
SpecifiedSelection ==
    OldestOf({a \in AttemptTableIds :
                /\ attempts[a].averageCompressionRatio = Null
                /\ \A t \in TestIds : testResults[a, t].status # FAILED
                /\ Cardinality({t \in TestTableIds :
                                   tests[t] /\ testResults[a, t].status # NONE})
                      < Cardinality({t \in TestTableIds : tests[t]})})

\* C8: the selection returns the oldest attempt with a null average, no FAILED
\* row and fewer tested active tests than there are active tests, and null
\* when there is no such attempt.
C8_SelectionExact ==
    [][\A w \in Workers :
          (pc[w] = "select" /\ Moves(w)) =>
             IF SpecifiedSelection = {} THEN pc'[w] = "sleep"
             ELSE pc'[w] = "getTests" /\ attempt'[w] \in SpecifiedSelection]_vars

\* C9: while an attempt has a FAILED TestResult, no selection returns it.
C9_FailedNeverSelected ==
    [][\A w \in Workers : \A a \in AttemptIds :
          (/\ pc[w] = "select" /\ Moves(w)
           /\ \E t \in TestIds : testResults[a, t].status = FAILED)
             => ~(pc'[w] = "getTests" /\ attempt'[w] = a)]_vars

\* A process went to sleep although an attempt without average had fewer
\* tested active tests than the process had counted: its FAILED row kept it out.
C9_Witness ==
    \E w \in Workers : \E a \in AttemptTableIds :
        /\ pc[w] = "sleep"
        /\ \E t \in TestIds : testResults[a, t].status = FAILED
        /\ attempts[a].averageCompressionRatio = Null
        /\ CountTestedActive(a) < activeTestsCount[w]

C11_PendingIsReclaimed ==
    \A k \in Keys :
        (testResults[k].status = PENDING) ~> (testResults[k].status \in Terminal)

\* An attempt is terminal: its average is set or one of its rows is FAILED.
IsTerminal(a) ==
    a \in AttemptTableIds
        /\ (attempts[a].averageCompressionRatio # Null \/ HasFailedResult(a))

\* C12: with the processes running and the evaluator always returning, every
\* attempt that is created eventually is terminal, also one created while the
\* processes are idle.
C12_EveryAttemptTerminates ==
    \A a \in AttemptIds : (a \in AttemptTableIds) ~> IsTerminal(a)

\* The attempts not yet terminal.
Unfinished == {a \in AttemptTableIds : ~IsTerminal(a)}

\* C13: while there is no active test, a poll selects the oldest unfinished
\* attempt, and processAttempt, finding an empty work set, sets its average
\* to 0 in that same cycle.
C13_ZeroActiveTests ==
    [][\A w \in Workers :
          /\ (pc[w] = "select" /\ Moves(w) /\ ActiveTests = {} /\ Unfinished # {})
                => (pc'[w] = "getTests" /\ attempt'[w] \in OldestOf(Unfinished))
          /\ (pc[w] = "getTests" /\ Moves(w) /\ ActiveTests = {})
                => attempts'[attempt[w]].averageCompressionRatio = <<0, 1>>]_vars

\* C14: once some test of an attempt is VALID, also when the process crashes
\* before it sets the average, the restarted process completes the attempt
\* (the average is set, unless a test fails), and a VALID row is never
\* claimed or written again.
C14_RestartCompletes ==
    /\ [][\A k \in Keys : testResults[k].status = VALID
                             => testResults'[k] = testResults[k]]_vars
    /\ \A a \in AttemptIds :
          (\E t \in TestIds : testResults[a, t].status = VALID) ~> IsTerminal(a)

\* C15: the attempts one process passes to processAttempt have non-decreasing
\* timestamps: it never takes up an attempt older than one it took up before.
C15_NonDecreasingTimestamps ==
    [][\A w \in Workers :
          (pc[w] = "select" /\ pc'[w] = "getTests")
             => attempts[attempt'[w]].timestamp >= lastProcessed[w]]_vars

IsStoreCall == upsertCalls' = upsertCalls + 1

\* C17: a call of upsert_tests never leaves two rows with the same
\* (model, payload), also for a batch with a duplicate in it, and returns the
\* number of rows it newly inserted; a call with the same rows as the call
\* before it leaves the row count as it was and returns 0.
C17_IdempotentIngestion ==
    [][IsStoreCall =>
          /\ \A i \in 1..Len(testRows') : \A j \in 1..Len(testRows') :
                testRows'[i].payload = testRows'[j].payload => i = j
          /\ upsertResult' = Len(testRows') - Len(testRows)
          /\ (upsertCalls >= 1 /\ upsertBatch' = upsertBatch)
                => (Len(testRows') = Len(testRows) /\ upsertResult' = 0)]_vars

\* C18: a call of upsert_tests leaves every row that existed before it as it
\* was: is_active and total_tokens of an existing row are not changed.
C18_ExistingRowsUntouched ==
    [][IsStoreCall => \A i \in 1..Len(testRows) : testRows'[i] = testRows[i]]_vars

RECURSIVE SumUsage(_)
SumUsage(log) ==
    IF log = <<>> THEN ZeroUsage
    ELSE LET rest == SumUsage(SubSeq(log, 1, Len(log) - 1))
             last == log[Len(log)]
         IN  [prompt_tokens |-> rest.prompt_tokens + last.usage.prompt_tokens,
              completion_tokens |-> rest.completion_tokens + last.usage.completion_tokens,
              total_tokens |-> rest.total_tokens + last.usage.total_tokens]

\* C19: evaluatePrompt returns a result (it does not throw); it has made its
\* gateway calls one after another and stopped at the first that failed or
\* did not give the correct answer; passed is true exactly when all
\* `attempts` calls gave the correct answer; usage is the sum of the usage
\* of the calls that completed.
C19_EvaluatePrompt ==
    evalReturn # Null =>
        /\ evalReturn.passed \in BOOLEAN
        /\ Len(evalLog) <= evalAttempts
        /\ \A i \in 1..(Len(evalLog) - 1) : evalLog[i].kind = "right"
        /\ evalReturn.passed <=>
              (Len(evalLog) = evalAttempts /\ \A i \in 1..Len(evalLog) : evalLog[i].kind = "right")
        /\ evalReturn.usage = SumUsage(evalLog)

\* evaluatePrompt with attempts = 2 returned passed: false after a correct
\* first answer and a wrong second one, with the usage of both calls.
C19_Witness ==
    /\ evalReturn # Null
    /\ evalAttempts = 2
    /\ Len(evalLog) = 2
    /\ evalLog[2].kind = "wrong"
    /\ ~evalReturn.passed
    /\ evalReturn.usage.total_tokens = evalLog[1].usage.total_tokens + evalLog[2].usage.total_tokens

\* C20: the compression ratio is the uncompressed token count divided by the
\* compressed evaluation's token count when the latter is positive, and 0
\* otherwise; it never is the result of a division by zero.
C20_CompressionRatio ==
    evalPc = "done" =>
        LET u == uncompressedResult.usage.prompt_tokens
            c == evalReturn.usage.prompt_tokens
        IN  /\ compressionRatio # Infinity
            /\ compressionRatio = IF c > 0 THEN Float(u, c) ELSE Float(0, 1)

\* C29: the average of an attempt is written at most once: once it is
\* non-null no step changes it, also not the aggregation of a second process
\* that was processing the same attempt and leaves its loop later.
C29_AverageWrittenOnce ==
    [][\A a \in AttemptTableIds :
          attempts[a].averageCompressionRatio # Null
             => attempts'[a].averageCompressionRatio = attempts[a].averageCompressionRatio]_vars

\* C30: whenever the average of an attempt is non-null, no TestResult row of
\* that attempt is PENDING.
C30_NoPendingOnceComplete ==
    \A a \in AttemptTableIds :
        attempts[a].averageCompressionRatio # Null
            => \A t \in TestIds : testResults[a, t].status # PENDING

\* C24: a poll that finds no eligible attempt changes no row of the tables
\* and leaves the database connection of the process usable for its next
\* poll, which follows after the sleep of POLL_INTERVAL.
C24_IdlePollChangesNothing ==
    [][\A w \in Workers :
          (pc[w] = "select" /\ Moves(w) /\ pc'[w] = "sleep")
             => /\ dbVars' = dbVars
                /\ connected'[w]]_vars

\* The step is taken by process w and a statement of it failed in the database.
DbErrorStep(w) == Moves(w) /\ dbErrors' = dbErrors + 1

\* C22: when the claim insert fails with a database error other than the key
\* conflict, it is not treated as a lost race: processing of the attempt
\* stops, the catch of the loop logs the error and the process sleeps one
\* POLL_INTERVAL before its next poll.
C22_ClaimErrorRethrown ==
    [][\A w \in Workers :
          (pc[w] = "claimWrite" /\ DbErrorStep(w))
             => /\ errorLogged'[w]
                /\ pc'[w] = "sleep"]_vars

\* C23: when the write that finalizes a claimed test fails the row stays
\* PENDING, when the write of the average fails the average stays null, and
\* in both cases the attempt still is one the selection keeps, so that the
\* work is taken up again on a later poll.
C23_WriteErrorRetried ==
    [][\A w \in Workers :
          /\ (pc[w] = "evaluate" /\ DbErrorStep(w))
                => /\ testResults'[CurrentKey(w)].status = PENDING
                   /\ attempt[w] \in (SelectableAttempts(Cardinality(ActiveTests)))'
          /\ (pc[w] = "aggregate" /\ DbErrorStep(w))
                => /\ attempts'[attempt[w]].averageCompressionRatio = Null
                   /\ attempt[w] \in (SelectableAttempts(Cardinality(ActiveTests)))']_vars

\* C21: every TestResult with status VALID has a non-null compressed_prompt
\* and a non-null compression_ratio, and every stored compression_ratio is
\* strictly greater than 0, also for a test whose total_tokens is unset.
C21_StoredRatioPositive ==
    \A k \in Keys :
        /\ testResults[k].status = VALID
              => stored[k].compressedPrompt # Null /\ stored[k].compressionRatio # Null
        /\ stored[k].compressionRatio # Null => stored[k].compressionRatio[1] > 0

\* C28: of several tasker instances running the uncompressed-evaluation step
\* at the same time, at most one evaluates a given test (calls evaluatePrompt
\* for it): the PENDING written by one keeps every other instance off the test.
C28_OneUncompressedEvaluator == \A t \in TestIds : Cardinality(evaluators[t]) <= 1

\* C25: a run of the admin seeder that finds a user with the configured
\* login or the configured email inserts and modifies nothing; otherwise it
\* inserts exactly one user, the administrator with is_admin = true; hence a
\* run after a successful run leaves the user table unchanged.
C25_SeederIdempotent ==
    [][(apiPc \in {"seedFind", "seedSave"} /\ apiPc' # apiPc) =>
          IF existingUser(users, adminLogin, adminEmail)
          THEN users' = users /\ apiPc' = "listening" /\ seedLog' = "exists"
          ELSE /\ apiPc = "seedFind" => (users' = users /\ apiPc' = "seedSave")
               /\ apiPc = "seedSave" =>
                     /\ users' = users \cup {[login |-> adminLogin, email |-> adminEmail,
                                              isAdmin |-> TRUE]}
                     /\ Cardinality(users') = Cardinality(users) + 1
                     /\ seedLog' = "created"]_vars

\* The seeder has run a second time, after the run that created the
\* administrator and a registration in between, and found the administrator.
C25_Witness ==
    /\ starts = 2
    /\ apiPc = "listening"
    /\ seedLog = "exists"
    /\ [login |-> adminLogin, email |-> adminEmail, isAdmin |-> TRUE] \in users
    /\ Cardinality(users) = 2

\* C27: from one client IP at most 2 registrations succeed: once two have
\* succeeded every further POST /register from that IP is answered 429 and
\* creates no user, also when the requests are handled concurrently.
C27_TwoRegistrationsPerIp == registered <= RegistrationLimit

\* The running call has returned and the call before it had equal inputs.
EqualInputs ==
    /\ evalPc = "done"
    /\ previous # Null
    /\ previous.task = task
    /\ previous.attempts = evalAttempts

\* C26: two evaluator calls with equal inputs produce byte-equal request
\* texts: the requestJson evaluatePrompt returns for the task, and the
\* requestJson of evaluateCompression that combines the compression request
\* and the evaluation requests.
C26_CanonicalRequests ==
    EqualInputs =>
        /\ previous.uncompressedRequestJson = uncompressedRequestJson
        /\ previous.requestJson = requestJson

\* C26 as amended: two evaluator calls with equal inputs to which the
\* compression model returned the same compressed task, and in which the same
\* evaluations had a gateway call complete, produce byte-equal request texts,
\* whatever the answers, the usage and the number of calls were.
C26_CanonicalRequestsGivenGateway ==
    (EqualInputs /\ previous.compressedTask = compressedTask /\ previous.completed = completed)
        => /\ previous.uncompressedRequestJson = uncompressedRequestJson
           /\ previous.requestJson = requestJson

\* Two calls whose evaluations all reached the gateway, the compressed task
\* answered rightly in one and wrongly in the other, have produced the same
\* combined text.
C26_Witness ==
    /\ EqualInputs
    /\ previous.compressedTask = compressedTask
    /\ completed = [uncompressed |-> TRUE, compressed |-> TRUE]
    /\ previous.completed = completed
    /\ previous.passed # evalReturn.passed
    /\ requestJson # Null
    /\ previous.requestJson = requestJson

====
